---- MODULE Spec2Model ----
(***************************************************************************)
(* Model of smart_jit.SmartJitDispatcher (src/smart_jit/smartjit.py): the  *)
(* dispatch layer that, per call, picks the compiled path, the interpreter *)
(* path or a TypeError.  One dispatcher, one call in flight; every step of *)
(* SmartJitDispatcher.__call__ is one action, in program order.            *)
(***************************************************************************)
EXTENDS Integers, Sequences, FiniteSets

VARIABLES
    opts,        \* decoration options: use_jit, warn_on_fallback, cache, forceobj, signatures
    store,       \* self.overloads: the compiled specializations (cres objects)
    hits,        \* self._cache_hits: signature -> number of persistent-cache loads
    disk,        \* self._cache: the persistent artifact index on disk
    gate,        \* self._can_compile
    pc,          \* position of the call in flight inside __call__
    args,        \* the call's argument tuple
    jit_action,  \* local jit_action of __call__
    old_value,   \* local old_value of __call__
    ret,         \* value the call returns
    outcome,     \* how the call ended: returned, or the exception raised
    ev,          \* lifecycle events emitted during the call, in order
    warned,      \* NumbaInterpreterModeWarning warnings emitted during the call
    policyCalls, \* times self.use_jit was invoked during the call
    compileReqs, \* fresh compilations requested from the compiler during the call
    bodyRuns,    \* executions of the function body during the call
    route,       \* which branch of __call__ served the call
    pre,         \* dispatcher state when the call began
    calls        \* calls started so far

dispatcher == <<store, hits, disk, gate>>
frame == <<pc, args, jit_action, old_value, ret, outcome>>
observed == <<ev, warned, policyCalls, compileReqs, bodyRuns, route, pre>>
vars == <<opts, store, hits, disk, gate, pc, args, jit_action, old_value, ret,
          outcome, ev, warned, policyCalls, compileReqs, bodyRuns, route, pre,
          calls>>

----------------------------------------------------------------------------
(* Bounds *)

MaxCalls == 3
MaxVal == 2

----------------------------------------------------------------------------
(* Values, shapes and signatures *)

PyTypes == {"int", "float", "str"}
NumbaTypes == {"int64", "float64", "unicode"}

PyVals == [ty : PyTypes, v : 1..MaxVal]

\* the argument tuples the model calls the dispatcher with (one positional argument)
ArgTuples == {<<x>> : x \in PyVals}

\* self.typeof_pyval(a)
typeof_pyval(a) ==
    IF a.ty = "int" THEN "int64"
    ELSE IF a.ty = "float" THEN "float64"
    ELSE "unicode"

\* the Python class of a value a compiled function returns for a numba type
PyTypeOf(t) ==
    IF t = "int64" THEN "int"
    ELSE IF t = "float64" THEN "float"
    ELSE "str"

\* tuple([self.typeof_pyval(a) for a in args])
get_signature_from_args(a) == [i \in DOMAIN a |-> typeof_pyval(a[i])]

Sigs == {<<t>> : t \in NumbaTypes}

\* enum.IntEnum Action, enum.auto() numbering
INTERPRETER == 1
JIT == 2
RAISE_EXCEPTION == 3

Action(n) == [kind |-> "Action", n |-> n]
NoneValue == [kind |-> "None", n |-> 0]
Unset == [kind |-> "unset", n |-> 0]

\* what a user policy may hand back: the three Action members, plain
\* integers, booleans and None
PolicyReturns ==
    {Action(INTERPRETER), Action(JIT), Action(RAISE_EXCEPTION)}
    \cup {[kind |-> "int", n |-> n] : n \in 0..3}
    \cup {[kind |-> "bool", n |-> n] : n \in 0..1}
    \cup {NoneValue}

IsSentinel(r) == r.kind = "Action"

\* Python's  jit_action == Action.X : Action is an IntEnum, so any int or
\* bool of the same numeric value compares equal
PyEq(r, n) == r.kind \in {"Action", "int", "bool"} /\ r.n = n

\* Python truthiness of jit_action
Truthy(r) == r.kind \in {"Action", "int", "bool"} /\ r.n # 0

\* self.py_func(*args): the decorated function, double(a) = a + a
py_func(a) == [ty |-> a[1].ty, v |-> a[1].v + a[1].v]

NoResult == [ty |-> "none", v |-> 0]

----------------------------------------------------------------------------
(* The specialization store, the persistent cache and overload resolution *)

\* a compile result: its signature, cres.objectmode as mode, and where the
\* object came from (each compilation or load makes a new object)
Cres(sig, mode, origin) == [sig |-> sig, mode |-> mode, origin |-> origin]

Modes == {"nopython", "object"}

\* the compiler's conversion rule between two argument types
Conv(from, to) ==
    IF from = to THEN "exact"
    ELSE IF from = "int64" /\ to = "float64" THEN "safe"
    ELSE IF from = "float64" /\ to = "int64" THEN "unsafe"
    ELSE "none"

\* whether arguments of signature t can be passed to a specialization for s
CanCast(t, s, unsafe_casting) ==
    /\ Len(t) = Len(s)
    /\ \A i \in DOMAIN t :
          Conv(t[i], s[i]) \in
              (IF unsafe_casting THEN {"exact", "safe", "unsafe"}
                                 ELSE {"exact", "safe"})

\* how far signature t is from s: the worst conversion of any argument
Rating(t, s) ==
    IF \E i \in DOMAIN t : Conv(t[i], s[i]) = "unsafe" THEN 2
    ELSE IF \E i \in DOMAIN t : Conv(t[i], s[i]) = "safe" THEN 1
    ELSE 0

\* self.nopython_signatures
nopython_signatures(S) == {e.sig : e \in {x \in S : x.mode = "nopython"}}

\* self.signatures: the observable collection of specialized signatures
signatures(S) == {e.sig : e \in S}

\* a resolution that accepts exact matches only
function_in_overload_exact(S, a) ==
    get_signature_from_args(a) \in nopython_signatures(S)

\* SmartJitDispatcher._function_in_overload
function_in_overload(S, a) ==
    LET t == get_signature_from_args(a)
        sigs == nopython_signatures(S)
    IN  \E s \in sigs : CanCast(t, s, FALSE)

\* an insertion that never replaces
add_overload_append(S, cres) == S \cup {cres}

\* self.add_overload(cres):  self.overloads[args] = cres
add_overload(S, cres) == {e \in S : e.sig # cres.sig} \cup {cres}

\* self._cache.load_overload(sig_args, self.targetctx): the entries on disk
\* for the signature (none when caching is off)
load_overload(D, t) == IF opts.cache THEN {e \in D : e.sig = t} ELSE {}

\* self._cache.save_overload(sig, cres)
save_overload(D, cres) ==
    IF opts.cache
    THEN {e \in D : e.sig # cres.sig} \cup {[sig |-> cres.sig, mode |-> cres.mode]}
    ELSE D

\* what the compiler can answer to a compilation request under the options
CompileOutcomes == IF opts.forceobj THEN {"object"} ELSE {"nopython", "fail"}

\* Dispatcher.compile(sig) as reached from super().__call__: reuse, load
\* from the persistent cache, or compile and save
compile(d, t, co) ==
    IF \E e \in d.store : e.sig = t
    THEN [d |-> d, ok |-> TRUE, fresh |-> 0]
    ELSE IF load_overload(d.disk, t) # {}
    THEN LET c == CHOOSE e \in load_overload(d.disk, t) : TRUE
         IN  [d |-> [store |-> add_overload(d.store, Cres(t, c.mode, "loaded")),
                     hits |-> [d.hits EXCEPT ![t] = @ + 1],
                     disk |-> d.disk],
              ok |-> TRUE, fresh |-> 0]
    ELSE IF co = "fail"
    THEN [d |-> d, ok |-> FALSE, fresh |-> 1]
    ELSE LET c == Cres(t, co, "compiled")
         IN  [d |-> [store |-> add_overload(d.store, c),
                     hits |-> d.hits,
                     disk |-> save_overload(d.disk, c)],
              ok |-> TRUE, fresh |-> 1]

\* the definitions the base dispatcher can pass the arguments to
Candidates(S, t, g) == {e \in S : CanCast(t, e.sig, ~g)}

\* the definition the base dispatcher selects: the closest candidate
Select(S, t, g) ==
    CHOOSE e \in Candidates(S, t, g) :
        \A o \in Candidates(S, t, g) : Rating(t, e.sig) <= Rating(t, o.sig)

\* the value a specialization returns: object mode computes as Python
\* does, nopython mode computes in the types of its signature
run_cfunc(e, a) ==
    IF e.mode = "object" THEN py_func(a)
    ELSE [ty |-> PyTypeOf(e.sig[1]), v |-> a[1].v + a[1].v]

\* CPUDispatcher.__call__ (super().__call__): run the matching definition;
\* with none, compile one when the gate permits, else TypeError.
\* co is the compiler's answer if asked, bodyOk whether the body returns.
base_call(d, g, a, co, bodyOk) ==
    LET t == get_signature_from_args(a)
    IN  IF Candidates(d.store, t, g) # {}
        THEN [d |-> d, fresh |-> 0, ran |-> 1,
              out |-> IF bodyOk THEN "ok" ELSE "BodyError",
              ret |-> IF bodyOk THEN run_cfunc(Select(d.store, t, g), a)
                                ELSE NoResult]
        ELSE IF g
        THEN LET c == compile(d, t, co)
             IN  IF ~c.ok
                 THEN [d |-> c.d, fresh |-> c.fresh, ran |-> 0,
                       out |-> "CompileError", ret |-> NoResult]
                 ELSE [d |-> c.d, fresh |-> c.fresh, ran |-> 1,
                       out |-> IF bodyOk THEN "ok" ELSE "BodyError",
                       ret |-> IF bodyOk
                               THEN run_cfunc(Select(c.d.store, t, g), a)
                               ELSE NoResult]
        ELSE IF \E e \in d.store : e.mode = "object"
        THEN LET f == CHOOSE e \in d.store : e.mode = "object"
             IN  [d |-> d, fresh |-> 0, ran |-> 1,
                  out |-> IF bodyOk THEN "ok" ELSE "BodyError",
                  ret |-> IF bodyOk THEN run_cfunc(f, a) ELSE NoResult]
        ELSE [d |-> d, fresh |-> 0, ran |-> 0, out |-> "TypeError",
              ret |-> NoResult]

----------------------------------------------------------------------------
(* Decoration *)

\* the option sets jit(...) is decorated with; explicit signatures are
\* nopython signatures
Options ==
    {o \in [use_jit : {"default", "custom"},
            warn_on_fallback : BOOLEAN,
            cache : BOOLEAN,
            forceobj : BOOLEAN,
            signatures : {{}, {<<"int64">>}, {<<"float64">>}}] :
        o.forceobj => o.signatures = {}}

\* what an earlier process may have left in the persistent cache
PriorDisk(o) ==
    IF o.cache
    THEN {{}} \cup {{[sig |-> s, mode |-> IF o.forceobj THEN "object"
                                                       ELSE "nopython"]} :
                    s \in Sigs}
    ELSE {{}}

ZeroHits == [s \in Sigs |-> 0]

\* the dispatcher after decoration: every explicit signature is compiled
\* (or loaded from the persistent cache) and compilation is then disabled
Decorated(o, d0) ==
    IF o.signatures = {}
    THEN [store |-> {}, hits |-> ZeroHits, disk |-> d0]
    ELSE LET s == CHOOSE x \in o.signatures : TRUE
             c == compile([store |-> {}, hits |-> ZeroHits, disk |-> d0],
                          s, "nopython")
         IN  [store |-> {[e EXCEPT !.origin =
                              IF @ = "compiled" THEN "declared" ELSE @] :
                          e \in c.d.store},
              hits |-> c.d.hits, disk |-> c.d.disk]

NoPre == [store |-> {}, hits |-> ZeroHits, disk |-> {}, gate |-> FALSE]
NoArgs == <<>>

Init ==
    \E o \in Options :
        /\ opts = o
        /\ \E d0 \in PriorDisk(o) :
              LET d == Decorated(o, d0)
              IN  /\ store = d.store
                  /\ hits = d.hits
                  /\ disk = d.disk
        /\ gate = (o.signatures = {})
        /\ pc = "idle"
        /\ args = NoArgs
        /\ jit_action = Unset
        /\ old_value = FALSE
        /\ ret = NoResult
        /\ outcome = "none"
        /\ ev = <<>>
        /\ warned = 0
        /\ policyCalls = 0
        /\ compileReqs = 0
        /\ bodyRuns = 0
        /\ route = "none"
        /\ pre = NoPre
        /\ calls = 0

----------------------------------------------------------------------------
(* SmartJitDispatcher.__call__, step by step *)

\* a caller invokes the dispatcher
Call(a) ==
    /\ pc = "idle"
    /\ calls < MaxCalls
    /\ calls' = calls + 1
    /\ args' = a
    /\ pc' = "overload"
    /\ pre' = [store |-> store, hits |-> hits, disk |-> disk, gate |-> gate]
    /\ UNCHANGED <<opts, dispatcher, jit_action, old_value, ret, outcome, ev,
                   warned, policyCalls, compileReqs, bodyRuns, route>>

\* an in-memory match that also counts as a cache hit
CheckOverload_counts_hit ==
    /\ pc = "overload"
    /\ IF function_in_overload(store, args)
       THEN /\ pc' = "run115"
            /\ route' = "overload"
            /\ hits' = [hits EXCEPT ![get_signature_from_args(args)] = @ + 1]
       ELSE pc' = "cache" /\ route' = route /\ hits' = hits
    /\ UNCHANGED <<opts, store, disk, gate, args, jit_action, old_value, ret,
                   outcome, ev, warned, policyCalls, compileReqs, bodyRuns,
                   pre, calls>>

\* if self._function_in_overload(*args, **kwargs)
CheckOverload ==
    /\ pc = "overload"
    /\ IF function_in_overload(store, args)
       THEN pc' = "run115" /\ route' = "overload"
       ELSE pc' = "cache" /\ route' = route
    /\ UNCHANGED <<opts, dispatcher, args, jit_action, old_value, ret, outcome,
                   ev, warned, policyCalls, compileReqs, bodyRuns, pre, calls>>

\* a persistent-cache load that forgets to count the hit
CheckCache_no_count ==
    /\ pc = "cache"
    /\ LET sig_args == get_signature_from_args(args)
           found == load_overload(disk, sig_args)
       IN  IF found # {}
           THEN LET cres == CHOOSE e \in found : TRUE
                IN  /\ store' = add_overload(store,
                                     Cres(sig_args, cres.mode, "loaded"))
                    /\ pc' = "run118"
                    /\ route' = "cache"
           ELSE /\ pc' = "policy"
                /\ UNCHANGED <<store, route>>
    /\ UNCHANGED <<opts, hits, disk, gate, args, jit_action, old_value, ret,
                   outcome, ev, warned, policyCalls, compileReqs, bodyRuns,
                   pre, calls>>

\* if self._function_in_cache(*args, **kwargs)
CheckCache ==
    /\ pc = "cache"
    /\ LET sig_args == get_signature_from_args(args)
           found == load_overload(disk, sig_args)
       IN  IF found # {}
           THEN LET cres == CHOOSE e \in found : TRUE
                IN  /\ hits' = [hits EXCEPT ![sig_args] = @ + 1]
                    /\ store' = add_overload(store,
                                     Cres(sig_args, cres.mode, "loaded"))
                    /\ pc' = "run118"
                    /\ route' = "cache"
           ELSE /\ pc' = "policy"
                /\ UNCHANGED <<store, hits, route>>
    /\ UNCHANGED <<opts, disk, gate, args, jit_action, old_value, ret, outcome,
                   ev, warned, policyCalls, compileReqs, bodyRuns, pre, calls>>

\* a default policy that answers INTERPRETER
use_jit_default_interpreter(a) ==
    IF opts.use_jit = "default" THEN {Action(INTERPRETER)} ELSE PolicyReturns

\* what self.use_jit(*args, **kwargs) may return
use_jit(a) ==
    IF opts.use_jit = "default" THEN {Action(JIT)} ELSE PolicyReturns

\* jit_action = self.use_jit(*args, **kwargs), the policy returning
UseJit ==
    /\ pc = "policy"
    /\ \E r \in use_jit(args) : jit_action' = r
    /\ policyCalls' = policyCalls + 1
    /\ route' = "policy"
    /\ pc' = "act"
    /\ UNCHANGED <<opts, dispatcher, args, old_value, ret, outcome, ev, warned,
                   compileReqs, bodyRuns, pre, calls>>

\* jit_action = self.use_jit(*args, **kwargs), a user policy raising
UseJitRaises ==
    /\ pc = "policy"
    /\ opts.use_jit = "custom"
    /\ policyCalls' = policyCalls + 1
    /\ route' = "policy"
    /\ pc' = "done"
    /\ outcome' = "PolicyError"
    /\ UNCHANGED <<opts, dispatcher, args, jit_action, old_value, ret, ev,
                   warned, compileReqs, bodyRuns, pre, calls>>

\* a dispatch that opens the gate before falling back to the interpreter
Act_interpreter_opens_gate ==
    /\ pc = "act"
    /\ IF PyEq(jit_action, JIT)
       THEN /\ old_value' = gate
            /\ gate' = TRUE
            /\ pc' = "run126"
            /\ outcome' = outcome
       ELSE IF PyEq(jit_action, INTERPRETER)
       THEN /\ pc' = "interp129"
            /\ gate' = TRUE
            /\ UNCHANGED <<old_value, outcome>>
       ELSE /\ pc' = "done"
            /\ outcome' = "TypeError"
            /\ UNCHANGED <<old_value, gate>>
    /\ UNCHANGED <<opts, store, hits, disk, args, jit_action, ret, ev, warned,
                   policyCalls, compileReqs, bodyRuns, route, pre, calls>>

\* a dispatch in which RAISE_EXCEPTION falls back to the interpreter
Act_reject_falls_back ==
    /\ pc = "act"
    /\ IF PyEq(jit_action, JIT)
       THEN /\ old_value' = gate
            /\ gate' = TRUE
            /\ pc' = "run126"
            /\ outcome' = outcome
       ELSE IF PyEq(jit_action, INTERPRETER) \/ PyEq(jit_action, RAISE_EXCEPTION)
       THEN /\ pc' = "interp129"
            /\ UNCHANGED <<old_value, gate, outcome>>
       ELSE /\ pc' = "done"
            /\ outcome' = "TypeError"
            /\ UNCHANGED <<old_value, gate>>
    /\ UNCHANGED <<opts, store, hits, disk, args, jit_action, ret, ev, warned,
                   policyCalls, compileReqs, bodyRuns, route, pre, calls>>

\* the if / elif / else on jit_action
Act ==
    /\ pc = "act"
    /\ IF PyEq(jit_action, JIT)
       THEN /\ old_value' = gate
            /\ gate' = TRUE
            /\ pc' = "run126"
            /\ outcome' = outcome
       ELSE IF PyEq(jit_action, INTERPRETER)
       THEN /\ pc' = "interp129"
            /\ UNCHANGED <<old_value, gate, outcome>>
       ELSE \* RAISE_EXCEPTION: _explain_matching_error; else: raise TypeError(msg)
            /\ pc' = "done"
            /\ outcome' = "TypeError"
            /\ UNCHANGED <<old_value, gate>>
    /\ UNCHANGED <<opts, store, hits, disk, args, jit_action, ret, ev, warned,
                   policyCalls, compileReqs, bodyRuns, route, pre, calls>>

\* self._run_jit_func(*args, **kwargs), at any of its four call sites
RunJitFunc ==
    /\ pc \in {"run115", "run118", "run126", "run146"}
    /\ \E co \in CompileOutcomes, bodyOk \in BOOLEAN :
          LET r == base_call([store |-> store, hits |-> hits, disk |-> disk],
                             gate, args, co, bodyOk)
              started == Append(ev, <<"jit_execution", "start">>)
          IN  /\ store' = r.d.store
              /\ hits' = r.d.hits
              /\ disk' = r.d.disk
              /\ compileReqs' = compileReqs + r.fresh
              /\ bodyRuns' = bodyRuns + r.ran
              /\ IF r.out = "ok"
                 THEN /\ ev' = Append(started, <<"jit_execution", "end">>)
                      /\ IF pc = "run126"
                         THEN pc' = "restore" /\ UNCHANGED <<ret, outcome>>
                         ELSE /\ pc' = "done"
                              /\ ret' = r.ret
                              /\ outcome' = "returned"
                 ELSE /\ ev' = started
                      /\ pc' = "done"
                      /\ outcome' = r.out
                      /\ ret' = ret
    /\ UNCHANGED <<opts, gate, args, jit_action, old_value, warned,
                   policyCalls, route, pre, calls>>

\* self._can_compile = old_value
Restore ==
    /\ pc = "restore"
    /\ gate' = old_value
    /\ pc' = "verify"
    /\ UNCHANGED <<opts, store, hits, disk, args, jit_action, old_value, ret,
                   outcome, ev, warned, policyCalls, compileReqs, bodyRuns,
                   route, pre, calls>>

\* self.can_compile()
can_compile == gate

\* a verification that falls back to the interpreter when compilation is
\* not permitted
Verify_falls_back ==
    /\ pc = "verify"
    /\ IF ~Truthy(jit_action) \/ ~gate
       THEN pc' = "interp144"
       ELSE pc' = "run146"
    /\ UNCHANGED <<opts, dispatcher, args, jit_action, old_value, ret, outcome,
                   ev, warned, policyCalls, compileReqs, bodyRuns, route, pre,
                   calls>>

\* a verification that returns after the first run, whose result was dropped
Verify_drops_result ==
    /\ pc = "verify"
    /\ IF Truthy(jit_action) /\ ~gate
       THEN pc' = "done" /\ outcome' = "TypeError"
       ELSE pc' = "done" /\ outcome' = "returned"
    /\ UNCHANGED <<opts, dispatcher, args, jit_action, old_value, ret, ev,
                   warned, policyCalls, compileReqs, bodyRuns, route, pre,
                   calls>>

\* the two trailing ifs and the final return of __call__
Verify ==
    /\ pc = "verify"
    /\ IF Truthy(jit_action) /\ ~can_compile
       THEN pc' = "done" /\ outcome' = "TypeError"
       ELSE IF ~Truthy(jit_action)
       THEN pc' = "interp144" /\ outcome' = outcome
       ELSE pc' = "run146" /\ outcome' = outcome
    /\ UNCHANGED <<opts, dispatcher, args, jit_action, old_value, ret, ev,
                   warned, policyCalls, compileReqs, bodyRuns, route, pre,
                   calls>>

\* a warning emitted whatever the flag says
emit_fallback_warning_always == IF opts.warn_on_fallback THEN 1 ELSE 1

\* self._emit_fallback_warning(*args): the warnings it adds
emit_fallback_warning == IF opts.warn_on_fallback THEN 1 ELSE 0

\* a fallback that hands the call to the compiled path
FallbackInterpreter_via_jit ==
    /\ pc \in {"interp129", "interp144"}
    /\ pc' = "run146"
    /\ UNCHANGED <<opts, dispatcher, args, jit_action, old_value, ret, outcome,
                   ev, warned, policyCalls, compileReqs, bodyRuns, route, pre,
                   calls>>

\* self._fallback_interpreter(*args, **kwargs)
FallbackInterpreter ==
    /\ pc \in {"interp129", "interp144"}
    /\ warned' = warned + emit_fallback_warning
    /\ bodyRuns' = bodyRuns + 1
    /\ pc' = "done"
    /\ \E bodyOk \in BOOLEAN :
          LET started == Append(ev, <<"interpreter_execution", "start">>)
          IN  IF bodyOk
              THEN /\ ev' = Append(started, <<"interpreter_execution", "end">>)
                   /\ ret' = py_func(args)
                   /\ outcome' = "returned"
              ELSE /\ ev' = started
                   /\ ret' = ret
                   /\ outcome' = "BodyError"
    /\ UNCHANGED <<opts, dispatcher, args, jit_action, old_value, policyCalls,
                   compileReqs, route, pre, calls>>

\* the call has returned or raised; the caller goes on
Return ==
    /\ pc = "done"
    /\ pc' = "idle"
    /\ args' = NoArgs
    /\ jit_action' = Unset
    /\ old_value' = FALSE
    /\ ret' = NoResult
    /\ outcome' = "none"
    /\ ev' = <<>>
    /\ warned' = 0
    /\ policyCalls' = 0
    /\ compileReqs' = 0
    /\ bodyRuns' = 0
    /\ route' = "none"
    /\ pre' = NoPre
    /\ UNCHANGED <<opts, dispatcher, calls>>

Next ==
    \/ \E a \in ArgTuples : Call(a)
    \/ CheckOverload
    \/ CheckCache
    \/ UseJit
    \/ UseJitRaises
    \/ Act
    \/ RunJitFunc
    \/ Restore
    \/ Verify
    \/ FallbackInterpreter
    \/ Return

Spec == Init /\ [][Next]_vars

----------------------------------------------------------------------------
(* Vocabulary of the properties *)

Done == pc = "done"
CallSig == get_signature_from_args(args)

Fired(kind, status) == \E i \in DOMAIN ev : ev[i] = <<kind, status>>
Count(kind, status) == Cardinality({i \in DOMAIN ev : ev[i] = <<kind, status>>})

CompiledEvent == Fired("jit_execution", "start")
EvaluatedEvent ==
    Fired("interpreter_execution", "start") \/ Fired("interpreter_execution", "end")

\* a specialization for exactly the signature is in the store S
Specialized(S, t) == \E e \in S : e.sig = t

\* no exact specialization, but a compiled signature accepts the arguments
\* under safe casting
FamilyCompatible(S, a) ==
    /\ ~Specialized(S, get_signature_from_args(a))
    /\ \E e \in S : /\ e.mode = "nopython"
                    /\ CanCast(get_signature_from_args(a), e.sig, FALSE)

\* no specialization of the store S accepts the arguments, exactly or by
\* safe casting
Novel(S, a) ==
    \A e \in S : ~CanCast(get_signature_from_args(a), e.sig, FALSE)

\* the call in flight was decided by the policy, which returned r
PolicyReturned(r) == route = "policy" /\ jit_action = r

----------------------------------------------------------------------------
(* C1: in every state reached by any sequence of calls, the store holds at *)
(* most one specialization per signature.                                  *)
C1_AtMostOnePerSignature ==
    \A e1 \in store : \A e2 \in store : e1.sig = e2.sig => e1 = e2

\* a persistent-cache load has just registered a specialization for a
\* signature that already had one when the call began
C1_Witness ==
    /\ pc = "run118"
    /\ Specialized(pre.store, CallSig)
    /\ Specialized(store, CallSig)

(* C2 (as claimed): whenever a specialization for the call's signature     *)
(* existed when the call began, the policy callable is not invoked during  *)
(* the call.                                                               *)
C2_NoPolicyOnceSpecialized ==
    (pc # "idle" /\ Specialized(pre.store, CallSig)) => policyCalls = 0

C4_InterpreterNeverCompiles ==
    (Done /\ PolicyReturned(Action(INTERPRETER))) =>
        /\ compileReqs = 0
        /\ store = pre.store
        /\ bodyRuns = 1
        /\ Fired("interpreter_execution", "start")
        /\ ~Fired("jit_execution", "start")
        /\ ~Fired("jit_execution", "end")
        /\ outcome \in {"returned", "BodyError"}
        /\ (outcome = "returned" => ret = py_func(args))

C4_Witness ==
    /\ Done
    /\ PolicyReturned(Action(INTERPRETER))
    /\ outcome = "returned"
    /\ ret = py_func(args)

(* C5: a finished call for which the policy returned JIT for a novel shape *)
(* on a dispatcher without explicit signatures fired a compiled-execution  *)
(* event and no evaluated-execution event; and unless the compiler or the  *)
(* body raised, it added a specialization for exactly the call's signature *)
(* (and no other) and returned the function's result.                      *)
C5_JitCompilesNovelShape ==
    (/\ Done
     /\ PolicyReturned(Action(JIT))
     /\ opts.signatures = {}
     /\ Novel(pre.store, args)) =>
        /\ CompiledEvent
        /\ ~EvaluatedEvent
        /\ outcome \in {"returned", "CompileError", "BodyError"}
        /\ outcome = "returned" =>
              /\ signatures(store) = signatures(pre.store) \cup {CallSig}
              /\ ~Specialized(pre.store, CallSig)
              /\ ret = py_func(args)
        /\ compileReqs = 0 => outcome # "returned"

C5_Witness ==
    /\ Done
    /\ PolicyReturned(Action(JIT))
    /\ opts.signatures = {}
    /\ Novel(pre.store, args)
    /\ outcome = "returned"
    /\ Specialized(store, CallSig)

(* C6: a finished call for which the policy returned RAISE_EXCEPTION       *)
(* raised a TypeError, fired no event of either kind, inserted no          *)
(* specialization, and neither ran the body nor asked for a compilation.   *)
C6_RaiseExceptionRejects ==
    (Done /\ PolicyReturned(Action(RAISE_EXCEPTION))) =>
        /\ outcome = "TypeError"
        /\ ev = <<>>
        /\ store = pre.store
        /\ bodyRuns = 0
        /\ compileReqs = 0
        /\ ret = NoResult

C6_Witness ==
    /\ Done
    /\ PolicyReturned(Action(RAISE_EXCEPTION))
    /\ outcome = "TypeError"

(* C7 (as claimed): a finished call for which the policy returned a value  *)
(* that is not one of the three Action members (a plain integer, a boolean *)
(* or None) raised a TypeError, left the store unchanged and fired no      *)
(* events.                                                                 *)
C7_NonSentinelRejected ==
    (/\ Done
     /\ route = "policy"
     /\ jit_action # Unset
     /\ ~IsSentinel(jit_action)) =>
        /\ outcome = "TypeError"
        /\ store = pre.store
        /\ ev = <<>>

(* C8: a finished call for which the policy returned JIT, whose            *)
(* compilation request completed, and for which can_compile() then         *)
(* reported that compilation is not permitted, raised a TypeError: it      *)
(* returned no result and did not fall back to the interpreter.            *)
C8_VerifyFailureRaises ==
    (/\ Done
     /\ route = "policy"
     /\ PyEq(jit_action, JIT)
     /\ Len(ev) >= 2
     /\ ev[1] = <<"jit_execution", "start">>
     /\ ev[2] = <<"jit_execution", "end">>
     /\ ~pre.gate) =>
        /\ outcome = "TypeError"
        /\ ret = NoResult
        /\ ~EvaluatedEvent
        /\ warned = 0
        /\ Len(ev) = 2

C8_Witness ==
    /\ Done
    /\ PolicyReturned(Action(JIT))
    /\ opts.signatures # {}
    /\ opts.use_jit = "default"
    /\ ~Specialized(pre.store, CallSig)
    /\ ~can_compile
    /\ outcome = "TypeError"
    /\ Len(ev) = 2

(* C9 (as claimed): once a call that took the JIT action has ended, by     *)
(* returning or by raising, the gate _can_compile holds the value it had   *)
(* before the call.                                                        *)
C9_GateRestored ==
    (Done /\ route = "policy" /\ PyEq(jit_action, JIT)) => gate = pre.gate

(* C10 (as claimed): when a call has ended, every start event of a kind    *)
(* has been followed by an end event of the same kind, also when the       *)
(* backend raised.                                                         *)
C10_EveryStartHasItsEnd ==
    Done =>
        \A kind \in {"jit_execution", "interpreter_execution"} :
            Count(kind, "start") = Count(kind, "end")

(* C11: the fallback warnings a call has emitted number exactly 1 when the *)
(* call has run on the evaluated path and warn_on_fallback is true, and 0  *)
(* otherwise: never with the flag false, never on the compiled path.       *)
C11_WarningsCounted ==
    warned = (IF Fired("interpreter_execution", "start") /\ opts.warn_on_fallback
              THEN 1 ELSE 0)

C11_Witness ==
    /\ Done
    /\ opts.warn_on_fallback
    /\ Fired("interpreter_execution", "start")
    /\ warned = 1

C14_DefaultPolicyAlwaysJit ==
    (pc # "idle" /\ opts.use_jit = "default" /\ opts.signatures = {}) =>
        /\ policyCalls = 1 => jit_action = Action(JIT)
        /\ ~EvaluatedEvent
        /\ outcome # "TypeError"
        /\ pc \notin {"interp129", "interp144"}

C14_Witness ==
    /\ Done
    /\ opts.use_jit = "default"
    /\ opts.signatures = {}
    /\ PolicyReturned(Action(JIT))
    /\ outcome = "returned"

(* C15 (as claimed): a persistent-cache load for a signature that already  *)
(* has a specialization in the store neither adds nor replaces an entry.   *)
C15_LoadNeverOverwrites ==
    (pc = "run118" /\ Specialized(pre.store, CallSig)) => store = pre.store

(* C16 (as claimed): a call that returned a result emitted exactly one     *)
(* start and one end event, both of one kind, and executed the function    *)
(* body exactly once.                                                      *)
C16_OneBackendOnce ==
    (Done /\ outcome = "returned") =>
        /\ Len(ev) = 2
        /\ ev[1][1] = ev[2][1]
        /\ bodyRuns = 1

(* C17 (as claimed): a call that ended with a TypeError raised by the      *)
(* dispatcher left the store as it was before the call and emitted no      *)
(* lifecycle event.                                                        *)
C17_TypeErrorLeavesNoTrace ==
    (Done /\ outcome = "TypeError") =>
        /\ store = pre.store
        /\ ev = <<>>

(* C18: a finished call that no in-memory specialization matched: when the *)
(* persistent cache held an entry for its exact signature, it loaded it,   *)
(* incremented that signature's hit-count by exactly one, registered it as *)
(* the signature's one specialization and ran the compiled path without    *)
(* invoking the policy; when the cache held none, the hit-counts are       *)
(* unchanged.                                                              *)
C18_CacheLoad ==
    (Done /\ ~function_in_overload(pre.store, args)) =>
        IF \E e \in pre.disk : opts.cache /\ e.sig = CallSig
        THEN /\ route = "cache"
             /\ hits = [pre.hits EXCEPT ![CallSig] = @ + 1]
             /\ Cardinality({e \in store : e.sig = CallSig}) = 1
             /\ \A e \in store : e.sig = CallSig => e.origin = "loaded"
             /\ signatures(store) = signatures(pre.store) \cup {CallSig}
             /\ policyCalls = 0
             /\ CompiledEvent
             /\ ~EvaluatedEvent
        ELSE hits = pre.hits

C18_Witness ==
    /\ Done
    /\ route = "cache"
    /\ ~Specialized(pre.store, CallSig)
    /\ hits[CallSig] = pre.hits[CallSig] + 1
    /\ outcome = "returned"

\* two first-time compilations have left every hit-count at 0
C18_WitnessNoEntry ==
    /\ Done
    /\ opts.cache
    /\ compileReqs = 1
    /\ Cardinality(store) = 2
    /\ hits = ZeroHits

(* C19: a call that has run on the evaluated path leaves the dispatcher's  *)
(* shared state as it was before the call: the specialized signatures,     *)
(* every hit-count, the persistent cache and the gate.                     *)
C19_EvaluatedLeavesStateUnchanged ==
    EvaluatedEvent =>
        /\ signatures(store) = signatures(pre.store)
        /\ store = pre.store
        /\ hits = pre.hits
        /\ disk = pre.disk
        /\ gate = pre.gate

C19_Witness ==
    /\ Done
    /\ EvaluatedEvent
    /\ outcome = "returned"
    /\ ~pre.gate
    /\ pre.store # {}

----------------------------------------------------------------------------
(* Decoration as a step: the decorator jit and its keywords *)

\* what jit() may be handed as use_jit: nothing (the default checker), a
\* callable policy, or a value that is not callable, such as "always"
UseJitArgs == {"default", "custom", "not_callable"}

\* the keyword sets jit() may be called with
JitKeywords ==
    {k \in [use_jit : UseJitArgs,
            warn_on_fallback : BOOLEAN,
            cache : BOOLEAN,
            forceobj : BOOLEAN,
            signatures : {{}, {<<"int64">>}, {<<"float64">>}}] :
        k.forceobj => k.signatures = {}}

\* isinstance(use_jit, Callable)
IsCallable(u) == u \in {"default", "custom"}

NoKeywords ==
    [use_jit |-> "default", warn_on_fallback |-> FALSE, cache |-> FALSE,
     forceobj |-> FALSE, signatures |-> {}]

\* before jit() is called: no dispatcher exists
InitDecorate ==
    /\ opts = NoKeywords
    /\ store = {}
    /\ hits = ZeroHits
    /\ disk = {}
    /\ gate = FALSE
    /\ pc = "undecorated"
    /\ args = NoArgs
    /\ jit_action = Unset
    /\ old_value = FALSE
    /\ ret = NoResult
    /\ outcome = "none"
    /\ ev = <<>>
    /\ warned = 0
    /\ policyCalls = 0
    /\ compileReqs = 0
    /\ bodyRuns = 0
    /\ route = "none"
    /\ pre = NoPre
    /\ calls = 0

\* a jit() that hands use_jit to the dispatcher without looking at it
Decorate_unchecked ==
    /\ pc = "undecorated"
    /\ \E k \in JitKeywords :
          /\ opts' = k
          /\ \E d0 \in PriorDisk(k) :
                LET d == Decorated(k, d0)
                IN  /\ store' = d.store
                    /\ hits' = d.hits
                    /\ disk' = d.disk
          /\ gate' = (k.signatures = {})
          /\ pc' = "idle"
          /\ outcome' = outcome
    /\ UNCHANGED <<args, jit_action, old_value, ret, ev, warned, policyCalls,
                   compileReqs, bodyRuns, route, pre, calls>>

\* jit(...): a use_jit that is not callable raises TypeError; otherwise the
\* keywords go to numba_jit, which builds the SmartJitDispatcher
Decorate ==
    /\ pc = "undecorated"
    /\ \E k \in JitKeywords :
          /\ opts' = k
          /\ IF ~IsCallable(k.use_jit)
             THEN /\ pc' = "decoration_failed"
                  /\ outcome' = "TypeError"
                  /\ UNCHANGED dispatcher
             ELSE /\ \E d0 \in PriorDisk(k) :
                        LET d == Decorated(k, d0)
                        IN  /\ store' = d.store
                            /\ hits' = d.hits
                            /\ disk' = d.disk
                  /\ gate' = (k.signatures = {})
                  /\ pc' = "idle"
                  /\ outcome' = outcome
    /\ UNCHANGED <<args, jit_action, old_value, ret, ev, warned, policyCalls,
                   compileReqs, bodyRuns, route, pre, calls>>

NextDecorate ==
    \/ Decorate
    \/ Next

SpecDecorate == InitDecorate /\ [][NextDecorate]_vars

(* C13: whenever jit() was given a use_jit that is not callable, the       *)
(* decoration has failed with a TypeError: no dispatcher was created (no   *)
(* specialization, no cache opened, gate untouched) and no call is or was  *)
(* dispatched.                                                             *)
C13_NonCallableFailsAtDecoration ==
    opts.use_jit = "not_callable" =>
        /\ pc = "decoration_failed"
        /\ outcome = "TypeError"
        /\ store = {}
        /\ disk = {}
        /\ ~gate
        /\ calls = 0
        /\ policyCalls = 0
        /\ ev = <<>>

C13_Witness ==
    /\ opts.use_jit = "not_callable"
    /\ pc = "decoration_failed"
    /\ outcome = "TypeError"

----------------------------------------------------------------------------
(* Two callers on one dispatcher.  The dispatcher's attributes are shared;  *)
(* in this specification the locals of __call__ (pc, args, jit_action,     *)
(* old_value, ret, outcome, route) hold one value per thread, and a thread *)
(* may be preempted between any two statements of __call__.  Each thread   *)
(* makes one call.  pre keeps the dispatcher's state before either call    *)
(* began; the per-call observation counters are not kept here.             *)

Threads == {"t1", "t2"}

InitConc ==
    \E o \in Options :
        /\ opts = o
        /\ ~o.warn_on_fallback
        /\ \E d0 \in PriorDisk(o) :
              LET d == Decorated(o, d0)
              IN  /\ store = d.store
                  /\ hits = d.hits
                  /\ disk = d.disk
                  /\ pre = [store |-> d.store, hits |-> d.hits,
                            disk |-> d.disk, gate |-> (o.signatures = {})]
        /\ gate = (o.signatures = {})
        /\ pc = [t \in Threads |-> "idle"]
        /\ args = [t \in Threads |-> NoArgs]
        /\ jit_action = [t \in Threads |-> Unset]
        /\ old_value = [t \in Threads |-> FALSE]
        /\ ret = [t \in Threads |-> NoResult]
        /\ outcome = [t \in Threads |-> "none"]
        /\ route = [t \in Threads |-> "none"]
        /\ ev = <<>>
        /\ warned = 0
        /\ policyCalls = 0
        /\ compileReqs = 0
        /\ bodyRuns = 0
        /\ calls = 0

untracked == <<ev, warned, policyCalls, compileReqs, bodyRuns, pre>>

\* thread t invokes the dispatcher
TCall(t, a) ==
    /\ pc[t] = "idle"
    /\ calls' = calls + 1
    /\ args' = [args EXCEPT ![t] = a]
    /\ pc' = [pc EXCEPT ![t] = "overload"]
    /\ UNCHANGED <<opts, dispatcher, jit_action, old_value, ret, outcome,
                   route, untracked>>

\* if self._function_in_overload(*args, **kwargs)
TCheckOverload(t) ==
    /\ pc[t] = "overload"
    /\ IF function_in_overload(store, args[t])
       THEN /\ pc' = [pc EXCEPT ![t] = "run115"]
            /\ route' = [route EXCEPT ![t] = "overload"]
       ELSE /\ pc' = [pc EXCEPT ![t] = "cache"]
            /\ route' = route
    /\ UNCHANGED <<opts, dispatcher, args, jit_action, old_value, ret, outcome,
                   calls, untracked>>

\* if self._function_in_cache(*args, **kwargs)
TCheckCache(t) ==
    /\ pc[t] = "cache"
    /\ LET sig_args == get_signature_from_args(args[t])
           found == load_overload(disk, sig_args)
       IN  IF found # {}
           THEN LET cres == CHOOSE e \in found : TRUE
                IN  /\ hits' = [hits EXCEPT ![sig_args] = @ + 1]
                    /\ store' = add_overload(store,
                                     Cres(sig_args, cres.mode, "loaded"))
                    /\ pc' = [pc EXCEPT ![t] = "run118"]
                    /\ route' = [route EXCEPT ![t] = "cache"]
           ELSE /\ pc' = [pc EXCEPT ![t] = "policy"]
                /\ UNCHANGED <<store, hits, route>>
    /\ UNCHANGED <<opts, disk, gate, args, jit_action, old_value, ret, outcome,
                   calls, untracked>>

\* jit_action = self.use_jit(*args, **kwargs), the policy returning
TUseJit(t) ==
    /\ pc[t] = "policy"
    /\ \E r \in use_jit(args[t]) : jit_action' = [jit_action EXCEPT ![t] = r]
    /\ route' = [route EXCEPT ![t] = "policy"]
    /\ pc' = [pc EXCEPT ![t] = "act"]
    /\ UNCHANGED <<opts, dispatcher, args, old_value, ret, outcome, calls,
                   untracked>>

\* jit_action = self.use_jit(*args, **kwargs), a user policy raising
TUseJitRaises(t) ==
    /\ pc[t] = "policy"
    /\ opts.use_jit = "custom"
    /\ route' = [route EXCEPT ![t] = "policy"]
    /\ pc' = [pc EXCEPT ![t] = "done"]
    /\ outcome' = [outcome EXCEPT ![t] = "PolicyError"]
    /\ UNCHANGED <<opts, dispatcher, args, jit_action, old_value, ret, calls,
                   untracked>>

\* the if / elif / else on jit_action; on JIT, old_value = self._can_compile
TAct(t) ==
    /\ pc[t] = "act"
    /\ IF PyEq(jit_action[t], JIT)
       THEN /\ old_value' = [old_value EXCEPT ![t] = gate]
            /\ pc' = [pc EXCEPT ![t] = "set125"]
            /\ outcome' = outcome
       ELSE IF PyEq(jit_action[t], INTERPRETER)
       THEN /\ pc' = [pc EXCEPT ![t] = "interp129"]
            /\ UNCHANGED <<old_value, outcome>>
       ELSE /\ pc' = [pc EXCEPT ![t] = "done"]
            /\ outcome' = [outcome EXCEPT ![t] = "TypeError"]
            /\ old_value' = old_value
    /\ UNCHANGED <<opts, dispatcher, args, jit_action, ret, route, calls,
                   untracked>>

\* self._can_compile = True
TSetGate(t) ==
    /\ pc[t] = "set125"
    /\ gate' = TRUE
    /\ pc' = [pc EXCEPT ![t] = "run126"]
    /\ UNCHANGED <<opts, store, hits, disk, args, jit_action, old_value, ret,
                   outcome, route, calls, untracked>>

\* self._run_jit_func(*args, **kwargs), at any of its four call sites
TRunJitFunc(t) ==
    /\ pc[t] \in {"run115", "run118", "run126", "run146"}
    /\ \E co \in CompileOutcomes, bodyOk \in BOOLEAN :
          LET r == base_call([store |-> store, hits |-> hits, disk |-> disk],
                             gate, args[t], co, bodyOk)
          IN  /\ store' = r.d.store
              /\ hits' = r.d.hits
              /\ disk' = r.d.disk
              /\ IF r.out = "ok"
                 THEN IF pc[t] = "run126"
                      THEN /\ pc' = [pc EXCEPT ![t] = "restore"]
                           /\ UNCHANGED <<ret, outcome>>
                      ELSE /\ pc' = [pc EXCEPT ![t] = "done"]
                           /\ ret' = [ret EXCEPT ![t] = r.ret]
                           /\ outcome' = [outcome EXCEPT ![t] = "returned"]
                 ELSE /\ pc' = [pc EXCEPT ![t] = "done"]
                      /\ outcome' = [outcome EXCEPT ![t] = r.out]
                      /\ ret' = ret
    /\ UNCHANGED <<opts, gate, args, jit_action, old_value, route, calls,
                   untracked>>

\* self._can_compile = old_value
TRestore(t) ==
    /\ pc[t] = "restore"
    /\ gate' = old_value[t]
    /\ pc' = [pc EXCEPT ![t] = "verify"]
    /\ UNCHANGED <<opts, store, hits, disk, args, jit_action, old_value, ret,
                   outcome, route, calls, untracked>>

\* the two trailing ifs and the final return of __call__
TVerify(t) ==
    /\ pc[t] = "verify"
    /\ IF Truthy(jit_action[t]) /\ ~can_compile
       THEN /\ pc' = [pc EXCEPT ![t] = "done"]
            /\ outcome' = [outcome EXCEPT ![t] = "TypeError"]
       ELSE IF ~Truthy(jit_action[t])
       THEN pc' = [pc EXCEPT ![t] = "interp144"] /\ outcome' = outcome
       ELSE pc' = [pc EXCEPT ![t] = "run146"] /\ outcome' = outcome
    /\ UNCHANGED <<opts, dispatcher, args, jit_action, old_value, ret, route,
                   calls, untracked>>

\* self._fallback_interpreter(*args, **kwargs)
TFallbackInterpreter(t) ==
    /\ pc[t] \in {"interp129", "interp144"}
    /\ pc' = [pc EXCEPT ![t] = "done"]
    /\ \E bodyOk \in BOOLEAN :
          IF bodyOk
          THEN /\ ret' = [ret EXCEPT ![t] = py_func(args[t])]
               /\ outcome' = [outcome EXCEPT ![t] = "returned"]
          ELSE /\ ret' = ret
               /\ outcome' = [outcome EXCEPT ![t] = "BodyError"]
    /\ UNCHANGED <<opts, dispatcher, args, jit_action, old_value, route, calls,
                   untracked>>

NextConc ==
    \E t \in Threads :
        \/ \E a \in ArgTuples : TCall(t, a)
        \/ TCheckOverload(t)
        \/ TCheckCache(t)
        \/ TUseJit(t)
        \/ TUseJitRaises(t)
        \/ TAct(t)
        \/ TSetGate(t)
        \/ TRunJitFunc(t)
        \/ TRestore(t)
        \/ TVerify(t)
        \/ TFallbackInterpreter(t)

SpecConc == InitConc /\ [][NextConc]_vars

\* thread t took the JIT action
TookJit(t) == route[t] = "policy" /\ PyEq(jit_action[t], JIT)

\* no call has left its JIT action by an exception of the compiler or body
NoBackendError ==
    \A t \in Threads : outcome[t] \notin {"CompileError", "BodyError"}

(* C20 (as claimed): for two concurrent calls that both take the JIT       *)
(* action and whose backends do not raise: once both have finished, the    *)
(* gate holds the value it had before either began; and a call reads the   *)
(* gate as permitted, when saving it or when verifying after its own JIT   *)
(* action, only if it was permitted before either call began.              *)
C20_GateIsolatedPerCall ==
    (NoBackendError /\ \A t \in Threads : pc[t] = "idle" \/ TookJit(t)) =>
        /\ (\A t \in Threads : pc[t] = "done") => gate = pre.gate
        /\ \A t \in Threads :
              /\ (pc[t] = "set125" /\ old_value[t]) => pre.gate
              /\ (pc[t] = "verify" /\ can_compile) => pre.gate

====
